---- MODULE Spec2Model ----
(***************************************************************************)
(* Brief Matcher Tool (src/app.py): a Streamlit form.  Every widget        *)
(* interaction re-runs main() from top to bottom against the session       *)
(* state; one action below is one such script run.                         *)
(*                                                                         *)
(* Python values are tagged records:                                       *)
(*   None  [t |-> "none"]          int  [t |-> "int", n |-> 7]             *)
(*   str   [t |-> "str", s |-> <<"7">>]   (a sequence of characters; a     *)
(*         free-text cell is a one-symbol sequence such as <<"Pop-up">>)   *)
(*   list  [t |-> "list", items |-> <<...>>]                               *)
(*   dict  [t |-> "dict", d |-> [ID |-> ..., scaled_reason |-> ...]]       *)
(*   NaN   [t |-> "nan"]           (a blank cell of the data frame)        *)
(* A library record (one row of df.to_dict('records')) is the bare         *)
(* function from column names to values.                                   *)
(***************************************************************************)
EXTENDS Integers, Sequences, FiniteSets, TLC

VARIABLES session_state, brief_library, load_error, request, run, display

vars == <<session_state, brief_library, load_error, request, run, display>>

\* ------------------------------------------------------------ bounds
\* longest brief text typed into the text area
MaxBriefLen == 1
\* longest JSON array the model returns
MaxMatches == 2

\* ------------------------------------------------------------ Python values
None == [t |-> "none"]
NaN == [t |-> "nan"]
PyInt(n) == [t |-> "int", n |-> n]
PyStr(s) == [t |-> "str", s |-> s]
PyList(items) == [t |-> "list", items |-> items]
PyDict(d) == [t |-> "dict", d |-> d]
EmptyStr == PyStr(<<>>)

Digits == <<"0", "1", "2", "3", "4", "5", "6", "7", "8", "9">>
Whitespace == {" ", "\t", "\n"}

\* bool(v): Python truthiness, as used by `if matches:` and `if not match_id:`
Truthy(v) ==
    CASE v.t = "none" -> FALSE
      [] v.t = "int" -> v.n # 0
      [] v.t = "str" -> v.s # <<>>
      [] v.t = "list" -> v.items # <<>>
      [] v.t = "dict" -> DOMAIN v.d # {}

RECURSIVE IntToStr(_)
IntToStr(n) ==
    IF n < 10 THEN <<Digits[n + 1]>>
    ELSE Append(IntToStr(n \div 10), Digits[(n % 10) + 1])

\* str(v) for the values an ID can take
str(v) ==
    CASE v.t = "none" -> <<"N", "o", "n", "e">>
      [] v.t = "int" -> IntToStr(v.n)
      [] v.t = "str" -> v.s

\* dict.get(key, default)
Get(d, key, default) == IF key \in DOMAIN d THEN d[key] ELSE default

RECURSIVE lstrip(_)
lstrip(s) ==
    IF s # <<>> /\ Head(s) \in Whitespace THEN lstrip(Tail(s)) ELSE s

RECURSIVE rstrip(_)
rstrip(s) ==
    IF s # <<>> /\ s[Len(s)] \in Whitespace
    THEN rstrip(SubSeq(s, 1, Len(s) - 1)) ELSE s

\* a strip that trims nothing
strip_nothing(s) == s

\* str.strip()
strip(s) == rstrip(lstrip(s))

RECURSIVE join(_, _)
\* sep.join(parts)
join(sep, parts) ==
    IF parts = <<>> THEN <<>>
    ELSE IF Len(parts) = 1 THEN parts[1]
    ELSE parts[1] \o sep \o join(sep, Tail(parts))

\* ------------------------------------------------------------ load_briefs
DigitValue(c) == CHOOSE i \in 0..9 : Digits[i + 1] = c

RECURSIVE ParseDigits(_)
ParseDigits(s) ==
    IF s = <<>> THEN 0
    ELSE 10 * ParseDigits(SubSeq(s, 1, Len(s) - 1)) + DigitValue(s[Len(s)])

IsDigits(s) ==
    s # <<>> /\ \A i \in 1..Len(s) : \E k \in 1..10 : Digits[k] = s[i]

\* pd.to_numeric(cell, errors='coerce').fillna(0) on one cell
to_numeric(cell) ==
    CASE cell.t = "int" -> cell
      [] cell.t = "str" -> IF IsDigits(cell.s) THEN PyInt(ParseDigits(cell.s))
                           ELSE PyInt(0)
      [] OTHER -> PyInt(0)

\* df.fillna("") on one cell
fillna(cell) == IF cell.t = "nan" THEN EmptyStr ELSE cell

\* df.dropna(how='all'): keep the rows with at least one cell that is not NaN
dropna(rows) ==
    SelectSeq(rows, LAMBDA r : \E c \in DOMAIN r : r[c].t # "nan")

process_row(r) ==
    [c \in DOMAIN r |->
        IF c = "Minimum_Viable_Budget" THEN to_numeric(fillna(r[c]))
        ELSE fillna(r[c])]

\* A fetch is either a failure of requests.get / raise_for_status, or the
\* data frame pd.read_csv builds: its columns and its rows of typed cells.
\* Returns the cached value: the records and whether the error was shown.
load_briefs(fetch) ==
    IF ~fetch.ok THEN [records |-> <<>>, error |-> TRUE]
    ELSE IF "Minimum_Viable_Budget" \notin fetch.columns
         THEN [records |-> <<>>, error |-> TRUE]
    ELSE LET kept == dropna(fetch.rows)
         IN  [records |-> [i \in 1..Len(kept) |-> process_row(kept[i])],
              error |-> FALSE]

\* ------------------------------------------------------------ inputs
Text(word) == PyStr(<<word>>)

FetchFailed == [ok |-> FALSE]

AllColumns ==
    {"ID", "Generic_Campaign_Concept", "Generic_Brand_Category",
     "Generic_Key_Objective", "Generic_Audience_Profile", "Core_Creative_Tactic",
     "Supporting_Media_Tactics", "Budget_Description", "Minimum_Viable_Budget"}

\* a sheet with every column, numeric IDs and a blank budget cell
SheetFull ==
    [ok |-> TRUE, columns |-> AllColumns,
     rows |-> <<
        [ID |-> PyInt(7), Generic_Campaign_Concept |-> Text("Pop-up store"),
         Generic_Brand_Category |-> Text("Retail"),
         Generic_Key_Objective |-> Text("Awareness"),
         Generic_Audience_Profile |-> Text("Gen Z"),
         Core_Creative_Tactic |-> Text("Stunt"),
         Supporting_Media_Tactics |-> Text("Social"),
         Budget_Description |-> Text("Reduced 60000; Full 120000"),
         Minimum_Viable_Budget |-> PyInt(60000)],
        [ID |-> PyInt(0), Generic_Campaign_Concept |-> Text("Radio takeover"),
         Generic_Brand_Category |-> Text("Finance"),
         Generic_Key_Objective |-> Text("Downloads"),
         Generic_Audience_Profile |-> NaN,
         Core_Creative_Tactic |-> Text("Jingle"),
         Supporting_Media_Tactics |-> NaN,
         Budget_Description |-> NaN,
         Minimum_Viable_Budget |-> NaN] >>]

\* a sheet with three columns only, text IDs, text budgets and a blank row
SheetSparse ==
    [ok |-> TRUE,
     columns |-> {"ID", "Generic_Campaign_Concept", "Minimum_Viable_Budget"},
     rows |-> <<
        [ID |-> PyStr(<<"7">>), Generic_Campaign_Concept |-> NaN,
         Minimum_Viable_Budget |-> PyStr(<<"2", "0", "0", "0", "0">>)],
        [ID |-> NaN, Generic_Campaign_Concept |-> NaN,
         Minimum_Viable_Budget |-> NaN],
        [ID |-> PyStr(<<"A", "1">>), Generic_Campaign_Concept |-> Text("Podcast"),
         Minimum_Viable_Budget |-> PyStr(<<"T", "B", "C">>)] >>]

\* a sheet without the Minimum_Viable_Budget column
SheetNoBudget ==
    [ok |-> TRUE, columns |-> {"ID", "Generic_Campaign_Concept"},
     rows |-> << [ID |-> PyInt(7), Generic_Campaign_Concept |-> Text("Pop-up store")] >>]

Fetches == {FetchFailed, SheetFull, SheetSparse, SheetNoBudget}

\* st.cache_data(ttl=600): a run either finds the cached value or fetches anew
CacheHit == [ok |-> FALSE, cached |-> TRUE]
Loads == {CacheHit} \cup Fetches

BriefChars == {" ", "x"}
RECURSIVE SeqsUpTo(_, _)
SeqsUpTo(S, n) ==
    IF n = 0 THEN {<<>>}
    ELSE LET shorter == SeqsUpTo(S, n - 1)
         IN  shorter \cup {Append(q, e) : q \in shorter, e \in S}

BriefTexts == SeqsUpTo(BriefChars, MaxBriefLen)
Audiences == {<<>>, <<"Gen Z">>}
ChannelChoices == {<<>>, << <<"Print">>, <<"Radio">> >>}
\* start_date is written by the date widget and by reset_form and read by
\* no handler; the session stays within one day
StartDates == {"today"}
Durations == {30, 90}
Budgets == {1000, 50000}

\* entries of the array the model returns
EntryResolved ==
    PyDict([ID |-> PyStr(<<"7">>), scaled_reason |-> Text("Fits the Full package")])
EntryUnresolved ==
    PyDict([ID |-> PyStr(<<"9">>), scaled_reason |-> Text("A strong conceptual fit")])
ListEntries == {EntryResolved, EntryUnresolved}

\* the documents json.loads can return for the response text
JsonValues ==
    {PyList(q) : q \in SeqsUpTo(ListEntries, MaxMatches)}
    \cup {PyList(<<Text("7")>>),
          PyList(<<PyDict([ID |-> PyInt(7)])>>),
          PyList(<<PyDict([ID |-> PyInt(0), scaled_reason |-> Text("Zero")])>>),
          PyList(<<PyDict([scaled_reason |-> Text("No id")])>>),
          EntryResolved, PyInt(3), None}

\* what model.generate_content and json.loads do for one call
ModelOutcomes ==
    {[kind |-> "raise"], [kind |-> "text", json |-> [ok |-> FALSE]]}
    \cup {[kind |-> "text", json |-> [ok |-> TRUE, value |-> v]] : v \in JsonValues}

\* ------------------------------------------------------------ find_matches
\* a projection that leaves the record's ID out
simplified_brief_without_id(b) ==
    [ID |-> EmptyStr,
     Generic_Campaign_Concept |-> Get(b, "Generic_Campaign_Concept", EmptyStr),
     Generic_Brand_Category |-> Get(b, "Generic_Brand_Category", EmptyStr),
     Generic_Key_Objective |-> Get(b, "Generic_Key_Objective", EmptyStr),
     Generic_Audience_Profile |-> Get(b, "Generic_Audience_Profile", EmptyStr),
     Core_Creative_Tactic |-> Get(b, "Core_Creative_Tactic", EmptyStr),
     Supporting_Media_Tactics |-> Get(b, "Supporting_Media_Tactics", EmptyStr),
     Budget_Description |-> Get(b, "Budget_Description", EmptyStr),
     Minimum_Viable_Budget |-> Get(b, "Minimum_Viable_Budget", PyInt(0))]

\* one element of simplified_briefs
simplified_brief(b) ==
    [ID |-> Get(b, "ID", EmptyStr),
     Generic_Campaign_Concept |-> Get(b, "Generic_Campaign_Concept", EmptyStr),
     Generic_Brand_Category |-> Get(b, "Generic_Brand_Category", EmptyStr),
     Generic_Key_Objective |-> Get(b, "Generic_Key_Objective", EmptyStr),
     Generic_Audience_Profile |-> Get(b, "Generic_Audience_Profile", EmptyStr),
     Core_Creative_Tactic |-> Get(b, "Core_Creative_Tactic", EmptyStr),
     Supporting_Media_Tactics |-> Get(b, "Supporting_Media_Tactics", EmptyStr),
     Budget_Description |-> Get(b, "Budget_Description", EmptyStr),
     Minimum_Viable_Budget |-> Get(b, "Minimum_Viable_Budget", PyInt(0))]

simplified_briefs(library) ==
    [i \in 1..Len(library) |-> simplified_brief(library[i])]

ApiMessages ==
    {"An error occurred with the API",
     "Could not connect to the API. Please check your API key and try again."}

\* a find_matches that calls the model a second time when the first call fails
find_matches_retrying(new_brief, params, user_budget, library, outcome) ==
    LET prompt == [new_brief |-> new_brief, params |-> params,
                   user_budget |-> user_budget,
                   library |-> simplified_briefs(library)]
        failed == outcome.kind = "raise" \/ ~outcome.json.ok
    IN  [prompt |-> prompt, calls |-> IF failed THEN 2 ELSE 1,
         response |-> IF outcome.kind = "raise" THEN "raised"
                      ELSE IF failed THEN "unparseable" ELSE "parsed",
         messages |-> IF failed THEN ApiMessages ELSE {},
         matches |-> IF failed THEN PyList(<<>>) ELSE outcome.json.value]

\* The prompt is kept as its interpolated parts.  `outcome` is what the one
\* generate_content call and json.loads do.  Returns the prompt sent, the
\* number of model calls made, the messages shown and the returned value.
find_matches(new_brief, params, user_budget, library, outcome) ==
    LET prompt == [new_brief |-> new_brief, params |-> params,
                   user_budget |-> user_budget,
                   library |-> simplified_briefs(library)]
        failed == outcome.kind = "raise" \/ ~outcome.json.ok
    IN  [prompt |-> prompt, calls |-> 1,
         response |-> IF outcome.kind = "raise" THEN "raised"
                      ELSE IF failed THEN "unparseable" ELSE "parsed",
         messages |-> IF failed THEN ApiMessages ELSE {},
         matches |-> IF failed THEN PyList(<<>>) ELSE outcome.json.value]

\* ------------------------------------------------------------ display_matches
NoDisplay == [kind |-> "none"]

Raised(exc) == [kind |-> "exception", exc |-> exc]

\* next((b for b in brief_library if str(b.get('ID')) == str(match_id)), None)
FirstMatching(library, match_id) ==
    LET hits == {i \in 1..Len(library) :
                    str(Get(library[i], "ID", None)) = str(match_id)}
    IN  IF hits = {} THEN 0 ELSE CHOOSE i \in hits : \A j \in hits : i <= j

\* lines 134-162: what is shown for the entry `match`, a dict
render_match(match, library) ==
    LET match_id == Get(match, "ID", None)
        reason == Get(match, "scaled_reason", Text("No reason provided."))
        found == FirstMatching(library, match_id)
    IN  IF ~Truthy(match_id)
        THEN [kind |-> "warning",
              text |-> "A match was found but it was missing an ID."]
        ELSE IF found = 0
        THEN [kind |-> "error", match_id |-> match_id]
        ELSE LET original_brief == library[found]
                 NA == Text("N/A")
             IN  [kind |-> "expander", index |-> found,
                  title |-> Get(original_brief, "Generic_Campaign_Concept",
                                Text("No Title")),
                  reason |-> reason,
                  Brand_Category |->
                      Get(original_brief, "Generic_Brand_Category", NA),
                  Audience_Profile |->
                      Get(original_brief, "Generic_Audience_Profile", NA),
                  Key_Objective |->
                      Get(original_brief, "Generic_Key_Objective", NA),
                  Core_Tactic |->
                      Get(original_brief, "Core_Creative_Tactic", NA),
                  Supporting_Tactics |->
                      Get(original_brief, "Supporting_Media_Tactics", NA),
                  Budget_Options |->
                      Get(original_brief, "Budget_Description", NA)]

\* a display that skips entries without a library record and shows the
\* first entry that has one
display_matches_skipping_unresolved(matches, library) ==
    IF ~Truthy(matches)
    THEN [kind |-> "info", text |-> "No close matches found"]
    ELSE IF matches.t = "dict" THEN Raised("KeyError")
    ELSE IF matches.t = "int" THEN Raised("TypeError")
    ELSE IF matches.t = "str" THEN Raised("AttributeError")
    ELSE LET resolvable ==
                 {i \in 1..Len(matches.items) :
                     /\ matches.items[i].t = "dict"
                     /\ Truthy(Get(matches.items[i].d, "ID", None))
                     /\ FirstMatching(library,
                                      Get(matches.items[i].d, "ID", None)) # 0}
             first == IF resolvable = {} THEN 1
                      ELSE CHOOSE i \in resolvable : \A j \in resolvable : i <= j
             match == matches.items[first]
         IN  IF match.t # "dict" THEN Raised("AttributeError")
             ELSE render_match(match.d, library)

\* what the results section shows for the stored value
display_matches(matches, library) ==
    IF ~Truthy(matches)
    THEN [kind |-> "info", text |-> "No close matches found"]
    ELSE IF matches.t = "dict" THEN Raised("KeyError")
    ELSE IF matches.t = "int" THEN Raised("TypeError")
    ELSE IF matches.t = "str" THEN Raised("AttributeError")
    ELSE LET match == matches.items[1]
         IN  IF match.t # "dict" THEN Raised("AttributeError")
             ELSE render_match(match.d, library)

\* ------------------------------------------------------------ session state
DefaultSession ==
    [new_brief_text |-> <<>>, target_audience |-> <<>>,
     proposed_channels |-> <<>>, start_date |-> "today",
     duration_days |-> 30, budget_value |-> 50000]

HasMatches(ss) == "matches" \in DOMAIN ss

\* session_state with st.session_state[key] = value
Assign(ss, key, value) ==
    [k \in DOMAIN ss \cup {key} |-> IF k = key THEN value ELSE ss[k]]

\* session_state after del st.session_state[key]
Delete(ss, key) == [k \in DOMAIN ss \ {key} |-> ss[k]]

\* a reset that leaves the stored matches in place
reset_form_keeping_matches(ss) ==
    [k \in DOMAIN ss |->
        CASE k = "new_brief_text" -> <<>>
          [] k = "target_audience" -> <<>>
          [] k = "proposed_channels" -> <<>>
          [] k = "start_date" -> "today"
          [] k = "duration_days" -> 30
          [] k = "budget_value" -> 50000
          [] OTHER -> ss[k]]

\* session_state after the on_click callback of "Reset Fields"
reset_form(ss) ==
    LET cleared ==
            [k \in DOMAIN ss |->
                CASE k = "new_brief_text" -> <<>>
                  [] k = "target_audience" -> <<>>
                  [] k = "proposed_channels" -> <<>>
                  [] k = "start_date" -> "today"
                  [] k = "duration_days" -> 30
                  [] k = "budget_value" -> 50000
                  [] OTHER -> ss[k]]
    IN  IF HasMatches(cleared) THEN Delete(cleared, "matches") ELSE cleared

NoRequest == [sent |-> FALSE]

\* a handler that clears the stored matches when it rejects the click
find_button_clearing(ss, library, outcome) ==
    IF strip(ss.new_brief_text) = <<>>
    THEN [session_state |-> Delete(ss, "matches"), request |-> NoRequest,
          calls |-> 0, response |-> "none",
          messages |-> {"Please paste a brief to match."}]
    ELSE IF library = <<>>
    THEN [session_state |-> Delete(ss, "matches"), request |-> NoRequest,
          calls |-> 0, response |-> "none",
          messages |-> {"Brief repository is empty or could not be loaded."}]
    ELSE LET additional_params ==
                 [Target_Audience |-> ss.target_audience,
                  Proposed_Media_Channels |->
                      join(<<",", " ">>, ss.proposed_channels),
                  Duration |-> ss.duration_days]
             found == find_matches(ss.new_brief_text, additional_params,
                                   ss.budget_value, library, outcome)
         IN  [session_state |-> Assign(ss, "matches", found.matches),
              request |-> [sent |-> TRUE, prompt |-> found.prompt],
              calls |-> found.calls, response |-> found.response,
              messages |-> found.messages]

\* the body of `if st.button("Find Matches")` when the button was clicked
find_button(ss, library, outcome) ==
    IF strip(ss.new_brief_text) = <<>>
    THEN [session_state |-> ss, request |-> NoRequest, calls |-> 0,
          response |-> "none",
          messages |-> {"Please paste a brief to match."}]
    ELSE IF library = <<>>
    THEN [session_state |-> ss, request |-> NoRequest, calls |-> 0,
          response |-> "none",
          messages |-> {"Brief repository is empty or could not be loaded."}]
    ELSE LET additional_params ==
                 [Target_Audience |-> ss.target_audience,
                  Proposed_Media_Channels |->
                      join(<<",", " ">>, ss.proposed_channels),
                  Duration |-> ss.duration_days]
             found == find_matches(ss.new_brief_text, additional_params,
                                   ss.budget_value, library, outcome)
         IN  [session_state |-> Assign(ss, "matches", found.matches),
              request |-> [sent |-> TRUE, prompt |-> found.prompt],
              calls |-> found.calls, response |-> found.response,
              messages |-> found.messages]

\* ------------------------------------------------------------ main
\* brief_library = load_briefs(BRIEF_LIBRARY_URL) under st.cache_data
Loaded(load) ==
    IF load = CacheHit THEN [records |-> brief_library, error |-> load_error]
    ELSE load_briefs(load)

\* the st.error / st.info of load_briefs are replayed with the cached value
LoadMessages(error) ==
    IF error THEN {"Error loading data from Google Sheet",
                   "Please ensure your Google Sheet is published to the web and the URL is correct."}
    ELSE {}

\* the results section at the end of main()
Results(ss, library) ==
    IF HasMatches(ss) THEN display_matches(ss.matches, library) ELSE NoDisplay

WidgetValues(key) ==
    CASE key = "new_brief_text" -> BriefTexts
      [] key = "target_audience" -> Audiences
      [] key = "proposed_channels" -> ChannelChoices
      [] key = "start_date" -> StartDates
      [] key = "duration_days" -> Durations
      [] key = "budget_value" -> Budgets

WidgetKeys == DOMAIN DefaultSession

Init ==
    /\ session_state = DefaultSession
    /\ \E fetch \in Fetches :
          /\ brief_library = load_briefs(fetch).records
          /\ load_error = load_briefs(fetch).error
    /\ request = NoRequest
    /\ run = [widget |-> "none", calls |-> 0, response |-> "none",
              messages |-> LoadMessages(load_error)]
    /\ display = NoDisplay

\* the user changes one input widget; the script re-runs with no button clicked
EditWidget(load, key, value) ==
    /\ session_state[key] # value
    /\ session_state' = Assign(session_state, key, value)
    /\ brief_library' = Loaded(load).records
    /\ load_error' = Loaded(load).error
    /\ request' = NoRequest
    /\ run' = [widget |-> "input", calls |-> 0, response |-> "none",
               messages |-> LoadMessages(load_error')]
    /\ display' = Results(session_state', brief_library')

\* The model answers only when it is called: for a click that makes no call
\* a single outcome stands for all of them.
Consulted(ss, library) ==
    {outcome \in ModelOutcomes :
        find_button(ss, library, outcome).calls > 0 \/ outcome.kind = "raise"}

\* the user clicks "Find Matches"
ClickFindMatches(load, outcome) ==
    LET library == Loaded(load).records
        done == find_button(session_state, library, outcome)
    IN  /\ session_state' = done.session_state
        /\ brief_library' = library
        /\ load_error' = Loaded(load).error
        /\ request' = done.request
        /\ run' = [widget |-> "Find Matches", calls |-> done.calls,
                   response |-> done.response,
                   messages |-> LoadMessages(load_error') \cup done.messages]
        /\ display' = Results(session_state', brief_library')

\* the user clicks "Reset Fields": the callback runs, then the script
ClickResetFields(load) ==
    /\ session_state' = reset_form(session_state)
    /\ brief_library' = Loaded(load).records
    /\ load_error' = Loaded(load).error
    /\ request' = NoRequest
    /\ run' = [widget |-> "Reset Fields", calls |-> 0, response |-> "none",
               messages |-> LoadMessages(load_error')]
    /\ display' = Results(session_state', brief_library')

Next ==
    \/ \E load \in Loads, key \in WidgetKeys :
          \E value \in WidgetValues(key) : EditWidget(load, key, value)
    \/ \E load \in Loads :
          \E outcome \in Consulted(session_state, Loaded(load).records) :
             ClickFindMatches(load, outcome)
    \/ \E load \in Loads : ClickResetFields(load)

Spec == Init /\ [][Next]_vars

\* ------------------------------------------------------------ properties
\* the text is empty or holds whitespace only
Blank(text) == \A i \in 1..Len(text) : text[i] \in Whitespace

InputWarnings ==
    {"Please paste a brief to match.",
     "Brief repository is empty or could not be loaded."}

FindClicked == run.widget = "Find Matches"

StoredList == HasMatches(session_state) /\ session_state.matches.t = "list"

\* entry i of the stored list is an object whose ID is an int or a string
HasId(i) ==
    /\ StoredList
    /\ i \in 1..Len(session_state.matches.items)
    /\ session_state.matches.items[i].t = "dict"
    /\ "ID" \in DOMAIN session_state.matches.items[i].d
    /\ session_state.matches.items[i].d.ID.t \in {"int", "str"}

IdOf(i) == session_state.matches.items[i].d.ID

\* some record of the loaded library has an ID with the same string form
SameStringForm(id) ==
    \E k \in 1..Len(brief_library) :
        "ID" \in DOMAIN brief_library[k] /\ str(brief_library[k].ID) = str(id)

\* C1: a "Find Matches" click whose brief is empty or whitespace-only, or
\* whose loaded library has no records, ends with an input warning and
\* without a model call, and a request that is sent never carries an empty
\* candidate list.
C1_NoCallOnEmptyInput ==
    FindClicked =>
        /\ (Blank(session_state.new_brief_text) \/ Len(brief_library) = 0) =>
              /\ run.calls = 0
              /\ ~request.sent
              /\ run.messages \cap InputWarnings # {}
        /\ request.sent => Len(request.prompt.library) > 0

C1_Witness ==
    /\ FindClicked
    /\ session_state.new_brief_text = <<" ">>
    /\ Len(brief_library) > 0
    /\ run.calls = 0
    /\ "Please paste a brief to match." \in run.messages

\* C2: whatever the model returns, no script run ends in an uncaught
\* exception raised by display_matches.
C2_NoUncaughtException == display.kind # "exception"

C4_RenderedWithinBudget ==
    (FindClicked /\ request.sent /\ display.kind = "expander")
    => brief_library[display.index].Minimum_Viable_Budget.n
          <= request.prompt.user_budget

\* C5: a returned id resolves to a rendered record exactly when some
\* library record's id has the same string form, and otherwise a
\* diagnostic is shown and nothing is rendered.
C5_ResolvesIffSameStringForm ==
    HasId(1) =>
        /\ display.kind = "expander" <=> SameStringForm(IdOf(1))
        /\ ~SameStringForm(IdOf(1)) => display.kind \in {"error", "warning"}

\* C6: the sequence stored in the session's matches slot never has more
\* than one entry.
C6_AtMostOneMatch ==
    StoredList => Len(session_state.matches.items) <= 1

\* C7: a click with a non-blank brief and a non-empty library sends a
\* request whose candidate projection has one entry per library record, in
\* library order, carrying the record's ID, Budget_Description and
\* Minimum_Viable_Budget, an absent field defaulting to "" or 0.
C7_ProjectionCarriesEveryRecord ==
    FindClicked =>
        /\ (~Blank(session_state.new_brief_text) /\ Len(brief_library) > 0) =>
              request.sent
        /\ request.sent =>
              /\ Len(request.prompt.library) = Len(brief_library)
              /\ \A i \in 1..Len(brief_library) :
                    LET b == brief_library[i]
                        c == request.prompt.library[i]
                    IN  /\ c.ID = IF "ID" \in DOMAIN b THEN b.ID ELSE EmptyStr
                        /\ c.Budget_Description =
                              IF "Budget_Description" \in DOMAIN b
                              THEN b.Budget_Description ELSE EmptyStr
                        /\ c.Minimum_Viable_Budget =
                              IF "Minimum_Viable_Budget" \in DOMAIN b
                              THEN b.Minimum_Viable_Budget ELSE PyInt(0)

C7_Witness ==
    /\ FindClicked /\ request.sent
    /\ Len(brief_library) = 2
    /\ "Budget_Description" \notin DOMAIN brief_library[1]
    /\ request.prompt.library[2].ID = PyStr(<<"A", "1">>)
    /\ request.prompt.library[1].Budget_Description = EmptyStr

\* C8: a click that passes input validation makes exactly one model call;
\* when the call raises or its text is not JSON the run shows the API error
\* and stores the empty list; no other run calls the model.
C8_OneCallNoRetry ==
    /\ request.sent => (FindClicked /\ run.calls = 1)
    /\ ~request.sent => run.calls = 0
    /\ run.response \in {"raised", "unparseable"} =>
          /\ run.calls = 1
          /\ "An error occurred with the API" \in run.messages
          /\ HasMatches(session_state)
          /\ session_state.matches = PyList(<<>>)

C8_Witness ==
    /\ FindClicked
    /\ run.response = "unparseable"
    /\ run.calls = 1
    /\ session_state.matches = PyList(<<>>)

\* C9: a "Find Matches" click rejected for a blank brief or an empty library
\* leaves the session state, its matches slot included, as it was, shows
\* the input warning, and renders the stored result again.
C9_RejectedClickKeepsMatches ==
    [][(run'.widget = "Find Matches"
          /\ (Blank(session_state.new_brief_text) \/ Len(brief_library') = 0))
       => /\ session_state' = session_state
          /\ run'.messages \cap InputWarnings # {}
          /\ HasMatches(session_state) =>
                /\ display'.kind # "none"
                /\ brief_library' = brief_library => display'.kind = display.kind
                /\ (brief_library' = brief_library /\ display.kind = "expander")
                      => display' = display]_vars

C9_Witness ==
    /\ FindClicked
    /\ run.calls = 0
    /\ run.messages \cap InputWarnings # {}
    /\ HasMatches(session_state)
    /\ display.kind = "expander"

\* C10: after "Reset Fields" the matches slot is absent and every input
\* holds its default; no result section is rendered while the slot is
\* absent, the slot is filled again only by a "Find Matches" click that
\* passes input validation, and a "Find Matches" click made right after the
\* reset makes no model call.
C10_ResetClearsEverything ==
    /\ [](run.widget = "Reset Fields" =>
            /\ ~HasMatches(session_state)
            /\ session_state.new_brief_text = <<>>
            /\ session_state.target_audience = <<>>
            /\ session_state.proposed_channels = <<>>
            /\ session_state.duration_days = 30
            /\ session_state.budget_value = 50000)
    /\ [](~HasMatches(session_state) => display.kind = "none")
    /\ [][(~HasMatches(session_state) /\ HasMatches(session_state'))
          => /\ run'.widget = "Find Matches"
             /\ run'.calls = 1
             /\ ~Blank(session_state'.new_brief_text)
             /\ Len(brief_library') > 0]_vars
    /\ [][(run.widget = "Reset Fields" /\ run'.widget = "Find Matches")
          => run'.calls = 0]_vars

C10_Witness ==
    /\ run.widget = "Reset Fields"
    /\ session_state = DefaultSession
    /\ display.kind = "none"
    /\ Len(brief_library) > 0

====
